---- MODULE Spec2Model ----
(***************************************************************************)
(* Model of package golog (jayvib/golog): the level ordering, the global   *)
(* threshold state.currentLevel guarded by mu, the six singleton           *)
(* stdLoggers, the logger factory and the package-level convenience        *)
(* functions of log.go.                                                    *)
(*                                                                         *)
(* Every exported function is entered by one action and then runs as a     *)
(* sequence of steps (pc), one per statement that touches shared state:    *)
(* mu.Lock, the deferred mu.Unlock, the read of gstate.currentLevel, the   *)
(* call of log.Logger.Output, os.Exit.                                     *)
(***************************************************************************)
EXTENDS Integers, Sequences, FiniteSets

(* ------------------------------------------------------------------ *)
(* Level: the iota constants of log.go.                                *)
(* ------------------------------------------------------------------ *)
DebugLevel == 0
TraceLevel == 1
InfoLevel == 2
WarningLevel == 3
ErrorLevel == 4
DisabledLevel == 5

Levels == DebugLevel..DisabledLevel

(* The status handed to os.Exit by Fatal and Fatalf. *)
ExitCode == 1

(* ------------------------------------------------------------------ *)
(* Bounds of the model.                                                *)
(* ------------------------------------------------------------------ *)
\* goroutines of the concurrent specification
NumThreads == 2
\* lines the sinks are handed in one behaviour
MaxLines == 2
\* loggers whose writer differs from the one they were built with
MaxRebound == 1

Threads == 1..NumThreads
\* the goroutine of the sequential specification
MainThread == CHOOSE t \in Threads : \A u \in Threads : t <= u

\* The Level values callers pass: Level is an int, nothing restricts it to
\* the six constants.
LevelInputs == (DebugLevel - 1)..(DisabledLevel + 1)

(* ------------------------------------------------------------------ *)
(* Level.String                                                        *)
(* ------------------------------------------------------------------ *)
\* mutant: the switch has a default that names the unknown level
StringWithDefault(l) ==
    CASE l = DebugLevel -> "DEBUG: "
      [] l = InfoLevel -> "INFO: "
      [] l = ErrorLevel -> "ERROR: "
      [] l = DisabledLevel -> "DISABLED: "
      [] l = TraceLevel -> "TRACE: "
      [] l = WarningLevel -> "WARN: "
      [] OTHER -> "UNKNOWN: "

String(l) ==
    CASE l = DebugLevel -> "DEBUG: "
      [] l = InfoLevel -> "INFO: "
      [] l = ErrorLevel -> "ERROR: "
      [] l = DisabledLevel -> "DISABLED: "
      [] l = TraceLevel -> "TRACE: "
      [] l = WarningLevel -> "WARNING: "
      [] OTHER -> ""

(* ------------------------------------------------------------------ *)
(* The singleton loggers and the writers they are built with.          *)
(* ------------------------------------------------------------------ *)
Singletons ==
    {"DebugLogger", "TraceLogger", "InfoLogger", "WarningLogger",
     "ErrorLogger", "DisabledLogger"}

\* the nil Logger interface value
Nil == "nil"

\* os.Stdout, ioutil.Discard and a buffer supplied by the caller
Sinks == {"stdout", "discard", "buf"}

\* the writers a logrus.Logger is given: os.Stderr by logrus.New, or a
\* buffer supplied by the caller
LogrusSinks == {"stderr", "buf"}

AllSinks == Sinks \cup LogrusSinks

\* logrus.New's TextFormatter and the package's JSONFormatter
Formatters == {"text", "json"}

\* The switch of NewLogrusLogger: the logrus severity of a Level.
\* DisabledLevel maps to logrus.InfoLevel; a value the switch does not
\* name leaves llevel at its zero value, logrus.PanicLevel.
LogrusLevelOf(level) ==
    CASE level = DebugLevel -> "debug"
      [] level = TraceLevel -> "trace"
      [] level = InfoLevel -> "info"
      [] level = WarningLevel -> "warning"
      [] level = ErrorLevel -> "error"
      [] level = DisabledLevel -> "info"
      [] OTHER -> "panic"

\* no *Logrus was built yet
NoLogrus ==
    [logger |-> "nil", level |-> DebugLevel, logrusLevel |-> "nil",
     out |-> "nil", formatter |-> "nil"]

\* &Logrus{logger: logrus.New(), level: level, logrusLevel: llevel}
NewLogrus(level) ==
    [logger |-> "logrus", level |-> level,
     logrusLevel |-> LogrusLevelOf(level),
     out |-> "stderr", formatter |-> "text"]

\* Logrus.isEnabled against the value cur read from gstate.currentLevel
isEnabled(level, cur) == IF level < cur THEN FALSE ELSE TRUE

\* the logging methods of *Logrus
LogrusFns ==
    {"Logrus.Print", "Logrus.Printf", "Logrus.Println", "Logrus.Fatal",
     "Logrus.Fatalf"}

\* stdLogger.level of each singleton
LevelOf(lg) ==
    CASE lg = "DebugLogger" -> DebugLevel
      [] lg = "TraceLogger" -> TraceLevel
      [] lg = "InfoLogger" -> InfoLevel
      [] lg = "WarningLogger" -> WarningLevel
      [] lg = "ErrorLogger" -> ErrorLevel
      [] lg = "DisabledLogger" -> DisabledLevel

\* the io.Writer given to log.New for each singleton
InitOut(lg) == IF lg = "DisabledLogger" THEN "discard" ELSE "stdout"

\* the prefix given to log.New for each singleton
Prefix(lg) == String(LevelOf(lg))

\* mutant: the package starts at the most verbose level
InitLevelDebug == DebugLevel

\* state.currentLevel as the package initialises it
InitLevel == InfoLevel

(* ------------------------------------------------------------------ *)
(* loggerFactory / NewStdLogger                                        *)
(* ------------------------------------------------------------------ *)
\* mutant: the WarningLevel case returns the logger of the case above it
loggerFactorySwapped(level) ==
    CASE level = DebugLevel -> "DebugLogger"
      [] level = TraceLevel -> "TraceLogger"
      [] level = InfoLevel -> "InfoLogger"
      [] level = WarningLevel -> "InfoLogger"
      [] level = ErrorLevel -> "ErrorLogger"
      [] level = DisabledLevel -> "DisabledLogger"
      [] OTHER -> Nil

loggerFactory(level) ==
    CASE level = DebugLevel -> "DebugLogger"
      [] level = TraceLevel -> "TraceLogger"
      [] level = InfoLevel -> "InfoLogger"
      [] level = WarningLevel -> "WarningLogger"
      [] level = ErrorLevel -> "ErrorLogger"
      [] level = DisabledLevel -> "DisabledLogger"
      [] OTHER -> Nil

NewStdLoggerResult(level) == loggerFactory(level)

(* ------------------------------------------------------------------ *)
(* stdLogger.isPrint: the comparison it makes once it has read the     *)
(* threshold.                                                          *)
(* ------------------------------------------------------------------ *)
\* mutants: the comparison made strict; the gate dropped
isPrintStrict(level, cur) == level > cur
isPrintAlways(level, cur) == TRUE

isPrint(level, cur) == IF level < cur THEN FALSE ELSE TRUE

(* ------------------------------------------------------------------ *)
(* The functions of the API.                                           *)
(* ------------------------------------------------------------------ *)
Methods == {"Print", "Printf", "Println", "Fatal", "Fatalf"}

PkgFns ==
    {"Debug", "Debugf", "Error", "Errorf", "Info", "Infof", "Trace",
     "Tracef", "Warning", "Warningf", "golog.Fatal", "golog.Fatalf"}

\* mutant: Fatal and Fatalf written against another singleton
PkgLoggerFatalApart(fn) ==
    CASE fn \in {"Debug", "Debugf"} -> "DebugLogger"
      [] fn \in {"Error", "Errorf"} -> "ErrorLogger"
      [] fn \in {"Info", "Infof"} -> "InfoLogger"
      [] fn \in {"Trace", "Tracef"} -> "TraceLogger"
      [] fn \in {"Warning", "Warningf"} -> "WarningLogger"
      [] fn \in {"golog.Fatal", "golog.Fatalf"} -> "WarningLogger"

\* the singleton each package-level function is written against
PkgLogger(fn) ==
    CASE fn \in {"Debug", "Debugf"} -> "DebugLogger"
      [] fn \in {"Error", "Errorf"} -> "ErrorLogger"
      [] fn \in {"Info", "Infof"} -> "InfoLogger"
      [] fn \in {"Trace", "Tracef"} -> "TraceLogger"
      [] fn \in {"Warning", "Warningf"} -> "WarningLogger"
      [] fn \in {"golog.Fatal", "golog.Fatalf"} -> "ErrorLogger"

\* the functions that call os.Exit after Output
IsFatal(fn) == fn \in {"Fatal", "Fatalf", "golog.Fatal", "golog.Fatalf"}

NoCall == [fn |-> "none", lg |-> Nil, arg |-> 0]

NoPre == [level |-> 0, out |-> <<>>, written |-> <<>>]

VARIABLES
    currentLevel,   \* state.currentLevel
    mu,             \* the threads holding mu (sync.RWMutex, Lock side only)
    out,            \* out[lg]: the writer of singleton lg's log.Logger
    written,        \* written[s]: how many lines sink s was handed
    exits,          \* the statuses os.Exit was called with (at most one)
    pc,             \* pc[t]: where thread t stands
    call,           \* call[t]: the function thread t is in and its arguments
    stale,          \* stale[t]: <<v>>, currentLevel as it was when getState
                    \* returned to the running call; <<>> outside the gate
    emitted,        \* emitted[t]: the lines the running call gave to Output
    pre,            \* pre[t]: threshold, writers and sinks when the call began
    lastSet,        \* the arguments of the last SetLevel that returned:
                    \* <<>> before the first, then <<lvl>>
    held,           \* held[t]: the values currentLevel has held since the
                    \* call of t began, kept until the gate has decided
    used,           \* used[t]: <<v>> once the gate of the running call has
                    \* read v from gstate.currentLevel
    lr              \* the *Logrus the caller holds: its fields and the
                    \* writer and formatter of its logrus.Logger

vars ==
    <<currentLevel, mu, out, written, exits, pc, call, stale, emitted, pre,
      lastSet, held, used, lr>>

Init ==
    /\ currentLevel = InitLevel
    /\ mu = {}
    /\ out = [lg \in Singletons |-> InitOut(lg)]
    /\ written = [s \in AllSinks |-> 0]
    /\ exits = <<>>
    /\ pc = [t \in Threads |-> "idle"]
    /\ call = [t \in Threads |-> NoCall]
    /\ stale = [t \in Threads |-> <<>>]
    /\ emitted = [t \in Threads |-> <<>>]
    /\ pre = [t \in Threads |-> NoPre]
    /\ lastSet = <<>>
    /\ held = [t \in Threads |-> {}]
    /\ used = [t \in Threads |-> <<>>]
    /\ lr = NoLogrus

\* the process has not called os.Exit
Running == exits = <<>>

\* the running call of thread t has called Output
wrote(t) == emitted[t] # <<>>

\* the steps of a logging call, from its entry to its return
LogPcs == {"isPrint", "getStateRet", "compare", "output", "exit", "ret"}

\* the steps of a call of a method of *Logrus
LogrusPcs ==
    {"isEnabled", "lrGetStateRet", "lrCompare", "lrLog", "lrExit", "lrRet"}

RECURSIVE Total(_, _)
Total(w, S) ==
    IF S = {} THEN 0
    ELSE LET s == CHOOSE x \in S : TRUE
         IN w[s] + Total(w, S \ {s})

\* lines written so far plus the logging calls that may still write one
Pending ==
    Total(written, AllSinks)
        + Cardinality({t \in Threads : pc[t] \in LogPcs \cup LogrusPcs})

(* ------------------------------------------------------------------ *)
(* Control flow and effects of the logging functions.                  *)
(* ------------------------------------------------------------------ *)
\* mutants: a gated Fatal still exits; Fatal exits before it writes; the
\* early return is missing
AfterCompareFatalExits(fn, ok) ==
    IF ok THEN "output" ELSE IF IsFatal(fn) THEN "exit" ELSE "ret"
AfterCompareExitFirst(fn, ok) ==
    IF ok THEN (IF IsFatal(fn) THEN "exit" ELSE "output") ELSE "ret"
AfterCompareNoReturn(fn, ok) == "output"

\* `if !l.isPrint() { return }`: a call that fails the gate returns, one
\* that passes goes on to Output
AfterCompare(fn, ok) == IF ok THEN "output" ELSE "ret"

\* after Output, Fatal and Fatalf call os.Exit, the others return
AfterOutput(fn) == IF IsFatal(fn) THEN "exit" ELSE "ret"

\* the line log.Logger.Output renders for logger lg: it starts with the
\* logger's prefix
Line(lg) == [prefix |-> Prefix(lg)]

\* mutant: the depth log.Println itself passes to Output
stdCallDepthOfLog == 1 + 1

\* const stdCallDepth
stdCallDepth == 3

\* the frame of the code that called into the package
UserFrame == [pkg |-> "user", fn |-> "caller"]

\* The frames of the goroutine when log.Logger.Output asks runtime.Caller,
\* innermost first. Every entry point fn, method of stdLogger or package
\* function, calls stdLogger.Output itself, which calls log.Logger.Output.
CallStack(fn) ==
    <<[pkg |-> "log", fn |-> "Logger.Output"],
      [pkg |-> "golog", fn |-> "stdLogger.Output"],
      [pkg |-> "golog", fn |-> fn],
      UserFrame>>

\* runtime.Caller(skip): skip = 0 is the function calling runtime.Caller;
\* beyond the stack there is no frame (log renders "???")
Caller(stack, skip) ==
    IF skip + 1 \in 1..Len(stack) THEN stack[skip + 1]
    ELSE [pkg |-> "???", fn |-> "???"]

\* the line with the frame log.Logger.Output takes its file and line from
Located(fn, line) ==
    [prefix |-> line.prefix, frame |-> Caller(CallStack(fn), stdCallDepth)]

\* log.Logger.Output hands the rendered line to the logger's writer: one
\* more line for sink s
Write(w, s) == [w EXCEPT ![s] = @ + 1]

\* mutant: the loggers built on one writer share one log.Logger
RebindShared(o, lg, w) == [l \in DOMAIN o |-> IF o[l] = o[lg] THEN w ELSE o[l]]

\* log.Logger.SetOutput replaces the writer of that one log.Logger
Rebind(o, lg, w) == [o EXCEPT ![lg] = w]

\* mutant: the gate keeps the threshold it saw first
ReadInitial(t) == {InitLevel}

\* The values the unsynchronised read of gstate.currentLevel may return:
\* the one current when getState released mu, or the present one.
RacyRead(t) == {stale[t][1], currentLevel}

\* what a call finds when it begins
Snapshot == [level |-> currentLevel, out |-> out, written |-> written]

\* Entry of a gated function fn on logger lg.
Enter(t, fn, lg) ==
    /\ Running
    /\ pc[t] = "idle"
    /\ Pending < MaxLines
    /\ call' = [call EXCEPT ![t] = [fn |-> fn, lg |-> lg, arg |-> 0]]
    /\ pre' = [pre EXCEPT ![t] = Snapshot]
    /\ held' = [held EXCEPT ![t] = {currentLevel}]
    /\ pc' = [pc EXCEPT ![t] = "isPrint"]
    /\ UNCHANGED <<currentLevel, mu, out, written, exits, stale, emitted,
                 lastSet, used, lr>>

stdLogger_Print(t, lg) ==
    /\ lg \in Singletons
    /\ Enter(t, "Print", lg)

stdLogger_Printf(t, lg) ==
    /\ lg \in Singletons
    /\ Enter(t, "Printf", lg)

stdLogger_Println(t, lg) ==
    /\ lg \in Singletons
    /\ Enter(t, "Println", lg)

stdLogger_Fatal(t, lg) ==
    /\ lg \in Singletons
    /\ Enter(t, "Fatal", lg)

stdLogger_Fatalf(t, lg) ==
    /\ lg \in Singletons
    /\ Enter(t, "Fatalf", lg)


\* Debug, Debugf, Error, Errorf, Info, Infof, Trace, Tracef, Warning,
\* Warningf, Fatal, Fatalf of the package
PackageFn(t, fn) ==
    /\ fn \in PkgFns
    /\ Enter(t, fn, PkgLogger(fn))

\* getState: mu.Lock()
getState_Lock(t) ==
    /\ Running
    /\ pc[t] = "isPrint"
    /\ mu = {}
    /\ mu' = {t}
    /\ pc' = [pc EXCEPT ![t] = "getStateRet"]
    /\ UNCHANGED <<currentLevel, out, written, exits, call, stale, emitted,
                 pre, lastSet, held, used, lr>>

\* mutant: getState returns without the deferred mu.Unlock()
getState_ReturnLocked(t) ==
    /\ Running
    /\ pc[t] = "getStateRet"
    /\ stale' = [stale EXCEPT ![t] = <<currentLevel>>]
    /\ pc' = [pc EXCEPT ![t] = "compare"]
    /\ UNCHANGED <<currentLevel, mu, out, written, exits, call, emitted,
                 pre, lastSet, held, used, lr>>

\* getState: return state, with the deferred mu.Unlock()
getState_Unlock(t) ==
    /\ Running
    /\ pc[t] = "getStateRet"
    /\ mu' = mu \ {t}
    /\ stale' = [stale EXCEPT ![t] = <<currentLevel>>]
    /\ pc' = [pc EXCEPT ![t] = "compare"]
    /\ UNCHANGED <<currentLevel, out, written, exits, call, emitted, pre,
                 lastSet, held, used, lr>>

\* isPrint: `l.level < gstate.currentLevel`, read after getState returned
isPrint_Compare(t) ==
    /\ Running
    /\ pc[t] = "compare"
    /\ \E v \in RacyRead(t) :
          /\ used' = [used EXCEPT ![t] = <<v>>]
          /\ pc' = [pc EXCEPT ![t] =
                    AfterCompare(call[t].fn, isPrint(LevelOf(call[t].lg), v))]
    /\ stale' = [stale EXCEPT ![t] = <<>>]
    /\ held' = [held EXCEPT ![t] = {}]
    /\ UNCHANGED <<currentLevel, mu, out, written, exits, call, emitted,
                 pre, lastSet, lr>>

\* stdLogger.Output -> log.Logger.Output
Output(t) ==
    /\ Running
    /\ pc[t] = "output"
    /\ written' = Write(written, out[call[t].lg])
    /\ emitted' = [emitted EXCEPT ![t] =
                      Append(@, Located(call[t].fn, Line(call[t].lg)))]
    /\ pc' = [pc EXCEPT ![t] = AfterOutput(call[t].fn)]
    /\ UNCHANGED <<currentLevel, mu, out, exits, call, stale, pre, lastSet,
                 held, used, lr>>

\* os.Exit(1): the process is gone, no thread takes another step
Exit(t) ==
    /\ Running
    /\ pc[t] = "exit"
    /\ exits' = Append(exits, ExitCode)
    /\ UNCHANGED <<currentLevel, mu, out, written, pc, call, stale,
                 emitted, pre, lastSet, held, used, lr>>

\* the logging function returns to its caller
Return(t) ==
    /\ Running
    /\ pc[t] = "ret"
    /\ pc' = [pc EXCEPT ![t] = "idle"]
    /\ call' = [call EXCEPT ![t] = NoCall]
    /\ emitted' = [emitted EXCEPT ![t] = <<>>]
    /\ pre' = [pre EXCEPT ![t] = NoPre]
    /\ used' = [used EXCEPT ![t] = <<>>]
    /\ UNCHANGED <<currentLevel, mu, out, written, exits, stale, lastSet,
                 held, lr>>

(* ------------------------------------------------------------------ *)
(* SetLevel -> setGlobalStateLevel                                     *)
(* ------------------------------------------------------------------ *)
SetLevel(t, lvl) ==
    /\ Running
    /\ pc[t] = "idle"
    /\ call' = [call EXCEPT ![t] = [fn |-> "SetLevel", lg |-> Nil, arg |-> lvl]]
    /\ pc' = [pc EXCEPT ![t] = "setLock"]
    /\ UNCHANGED <<currentLevel, mu, out, written, exits, stale, emitted,
                 pre, lastSet, held, used, lr>>

\* mu.Lock()
setGlobalStateLevel_Lock(t) ==
    /\ Running
    /\ pc[t] = "setLock"
    /\ mu = {}
    /\ mu' = {t}
    /\ pc' = [pc EXCEPT ![t] = "setWrite"]
    /\ UNCHANGED <<currentLevel, out, written, exits, call, stale, emitted,
                 pre, lastSet, held, used, lr>>

\* mutant: SetLevel brings its argument into the range of the constants
StoredClamped(lvl) ==
    IF lvl < DebugLevel THEN DebugLevel
    ELSE IF lvl > DisabledLevel THEN DisabledLevel ELSE lvl

\* the value setGlobalStateLevel stores for argument lvl
Stored(lvl) == lvl

\* the calls whose gate has not decided yet have one more value that
\* currentLevel held during them
Observed(h, v) ==
    [u \in Threads |-> IF h[u] = {} THEN {} ELSE h[u] \cup {v}]

\* state.currentLevel = lvl
setGlobalStateLevel_Write(t) ==
    /\ Running
    /\ pc[t] = "setWrite"
    /\ currentLevel' = Stored(call[t].arg)
    /\ held' = Observed(held, Stored(call[t].arg))
    /\ pc' = [pc EXCEPT ![t] = "setUnlock"]
    /\ UNCHANGED <<mu, out, written, exits, call, stale, emitted, pre,
                 lastSet, used, lr>>

\* the deferred mu.Unlock(); SetLevel returns
setGlobalStateLevel_Unlock(t) ==
    /\ Running
    /\ pc[t] = "setUnlock"
    /\ mu' = mu \ {t}
    /\ lastSet' = <<call[t].arg>>
    /\ pc' = [pc EXCEPT ![t] = "idle"]
    /\ call' = [call EXCEPT ![t] = NoCall]
    /\ UNCHANGED <<currentLevel, out, written, exits, stale, emitted, pre,
                 held, used, lr>>

(* ------------------------------------------------------------------ *)
(* stdLogger.SetOutput                                                 *)
(* ------------------------------------------------------------------ *)
Rebound(o) == {lg \in Singletons : o[lg] # InitOut(lg)}

SetOutputOn(t, lg, w) ==
    /\ Running
    /\ lg \in Singletons
    /\ Cardinality(Rebound(out) \cup {lg}) <= MaxRebound
    /\ out' = Rebind(out, lg, w)
    /\ pc' = [pc EXCEPT ![t] = "idle"]
    /\ call' = [call EXCEPT ![t] = NoCall]
    /\ UNCHANGED <<currentLevel, mu, written, exits, stale, emitted, pre,
                 lastSet, held, used, lr>>

\* SetOutput on one of the package's logger variables
stdLogger_SetOutput(t, lg, w) ==
    /\ pc[t] = "idle"
    /\ SetOutputOn(t, lg, w)

(* ------------------------------------------------------------------ *)
(* NewStdLogger and the use of the Logger it returned                  *)
(* ------------------------------------------------------------------ *)
NewStdLogger(t, level) ==
    /\ Running
    /\ pc[t] = "idle"
    /\ call' = [call EXCEPT ![t] =
                   [fn |-> "NewStdLogger", lg |-> NewStdLoggerResult(level),
                    arg |-> level]]
    /\ pc' = [pc EXCEPT ![t] = "factoryRet"]
    /\ UNCHANGED <<currentLevel, mu, out, written, exits, stale, emitted,
                 pre, lastSet, held, used, lr>>

\* l := NewStdLogger(level); l.SetOutput(w)
Handle_SetOutput(t, w) ==
    /\ pc[t] = "factoryRet"
    /\ SetOutputOn(t, call[t].lg, w)

\* l := NewStdLogger(level); l.Print(...), l.Fatalf(...), ...
Handle_Method(t, fn) ==
    /\ Running
    /\ pc[t] = "factoryRet"
    /\ call[t].lg \in Singletons
    /\ Pending < MaxLines
    /\ call' = [call EXCEPT ![t] = [fn |-> fn, lg |-> call[t].lg, arg |-> 0]]
    /\ pre' = [pre EXCEPT ![t] = Snapshot]
    /\ held' = [held EXCEPT ![t] = {currentLevel}]
    /\ pc' = [pc EXCEPT ![t] = "isPrint"]
    /\ UNCHANGED <<currentLevel, mu, out, written, exits, stale, emitted,
                 lastSet, used, lr>>

\* the caller drops the Logger it got
Handle_Drop(t) ==
    /\ Running
    /\ pc[t] = "factoryRet"
    /\ pc' = [pc EXCEPT ![t] = "idle"]
    /\ call' = [call EXCEPT ![t] = NoCall]
    /\ UNCHANGED <<currentLevel, mu, out, written, exits, stale, emitted,
                 pre, lastSet, held, used, lr>>

(* ------------------------------------------------------------------ *)
(* Level.String called by user code, as fmt does for a %s verb.        *)
(* ------------------------------------------------------------------ *)
Level_String(t, l) ==
    /\ Running
    /\ pc[t] = "idle"
    /\ call' = [call EXCEPT ![t] =
                   [fn |-> "Level.String", lg |-> Nil, arg |-> l,
                    ret |-> String(l)]]
    /\ pc' = [pc EXCEPT ![t] = "stringRet"]
    /\ UNCHANGED <<currentLevel, mu, out, written, exits, stale, emitted,
                 pre, lastSet, held, used, lr>>

\* the caller has used the string
Level_String_Return(t) ==
    /\ Running
    /\ pc[t] = "stringRet"
    /\ pc' = [pc EXCEPT ![t] = "idle"]
    /\ call' = [call EXCEPT ![t] = NoCall]
    /\ UNCHANGED <<currentLevel, mu, out, written, exits, stale, emitted,
                 pre, lastSet, held, used, lr>>

(* ------------------------------------------------------------------ *)
(* The logrus adapter: NewLogrusLogger and the methods of *Logrus.     *)
(* ------------------------------------------------------------------ *)
\* mutant: l.SetLevel(logrus.TraceLevel) lands on the package's threshold
NewLogrusLoggerSetsGlobal(t, level) ==
    /\ Running
    /\ pc[t] = "idle"
    /\ lr' = NewLogrus(level)
    /\ currentLevel' = TraceLevel
    /\ UNCHANGED <<mu, out, written, exits, pc, call, stale, emitted, pre,
                 lastSet, held, used>>

\* NewLogrusLogger builds a logrus.Logger, sets that logger's own level
\* to logrus.TraceLevel (which admits every severity) and wraps it.
NewLogrusLogger(t, level) ==
    /\ Running
    /\ pc[t] = "idle"
    /\ lr' = NewLogrus(level)
    /\ UNCHANGED <<currentLevel, mu, out, written, exits, pc, call, stale,
                 emitted, pre, lastSet, held, used>>

\* where the body of method fn begins: Printf has an empty body, the
\* others begin with l.isEnabled()
LogrusEntry(fn) == IF fn = "Logrus.Printf" THEN "lrRet" ELSE "isEnabled"

\* `if l.isEnabled() { ... }`
LogrusAfterCompare(fn, ok) == IF ok THEN "lrLog" ELSE "lrRet"

\* after logger.Log / logger.Logf: only Fatal goes on to os.Exit(1)
LogrusAfterLog(fn) == IF fn = "Logrus.Fatal" THEN "lrExit" ELSE "lrRet"

Logrus_Enter(t, fn) ==
    /\ Running
    /\ pc[t] = "idle"
    /\ lr # NoLogrus
    /\ Pending < MaxLines
    /\ call' = [call EXCEPT ![t] = [fn |-> fn, lg |-> "Logrus", arg |-> 0]]
    /\ pre' = [pre EXCEPT ![t] = Snapshot]
    /\ held' = [held EXCEPT ![t] =
                   IF LogrusEntry(fn) = "isEnabled" THEN {currentLevel}
                   ELSE {}]
    /\ pc' = [pc EXCEPT ![t] = LogrusEntry(fn)]
    /\ UNCHANGED <<currentLevel, mu, out, written, exits, stale, emitted,
                 lastSet, used, lr>>

Logrus_Print(t) ==
    /\ t \in Threads
    /\ Logrus_Enter(t, "Logrus.Print")

Logrus_Printf(t) ==
    /\ t \in Threads
    /\ Logrus_Enter(t, "Logrus.Printf")

Logrus_Println(t) ==
    /\ t \in Threads
    /\ Logrus_Enter(t, "Logrus.Println")

Logrus_Fatal(t) ==
    /\ t \in Threads
    /\ Logrus_Enter(t, "Logrus.Fatal")

Logrus_Fatalf(t) ==
    /\ t \in Threads
    /\ Logrus_Enter(t, "Logrus.Fatalf")

\* isEnabled -> getState: mu.Lock()
Logrus_getState_Lock(t) ==
    /\ Running
    /\ pc[t] = "isEnabled"
    /\ mu = {}
    /\ mu' = {t}
    /\ pc' = [pc EXCEPT ![t] = "lrGetStateRet"]
    /\ UNCHANGED <<currentLevel, out, written, exits, call, stale, emitted,
                 pre, lastSet, held, used, lr>>

\* isEnabled -> getState: return state, with the deferred mu.Unlock()
Logrus_getState_Unlock(t) ==
    /\ Running
    /\ pc[t] = "lrGetStateRet"
    /\ mu' = mu \ {t}
    /\ stale' = [stale EXCEPT ![t] = <<currentLevel>>]
    /\ pc' = [pc EXCEPT ![t] = "lrCompare"]
    /\ UNCHANGED <<currentLevel, out, written, exits, call, emitted, pre,
                 lastSet, held, used, lr>>

\* isEnabled: `l.level < gstate.currentLevel`, read after getState returned
Logrus_isEnabled_Compare(t) ==
    /\ Running
    /\ pc[t] = "lrCompare"
    /\ \E v \in RacyRead(t) :
          /\ used' = [used EXCEPT ![t] = <<v>>]
          /\ pc' = [pc EXCEPT ![t] =
                    LogrusAfterCompare(call[t].fn, isEnabled(lr.level, v))]
    /\ stale' = [stale EXCEPT ![t] = <<>>]
    /\ held' = [held EXCEPT ![t] = {}]
    /\ UNCHANGED <<currentLevel, mu, out, written, exits, call, emitted,
                 pre, lastSet, lr>>

\* the entry logrus renders: it carries the severity l.logrusLevel
LogrusLine(l) == [severity |-> l.logrusLevel]

\* l.logger.Log(l.logrusLevel, v...) / l.logger.Logf(...): the logger's
\* own level is logrus.TraceLevel, so the entry is written
Logrus_Log(t) ==
    /\ Running
    /\ pc[t] = "lrLog"
    /\ written' = Write(written, lr.out)
    /\ emitted' = [emitted EXCEPT ![t] = Append(@, LogrusLine(lr))]
    /\ pc' = [pc EXCEPT ![t] = LogrusAfterLog(call[t].fn)]
    /\ UNCHANGED <<currentLevel, mu, out, exits, call, stale, pre, lastSet,
                 held, used, lr>>

\* os.Exit(1) of Logrus.Fatal
Logrus_Exit(t) ==
    /\ Running
    /\ pc[t] = "lrExit"
    /\ exits' = Append(exits, ExitCode)
    /\ UNCHANGED <<currentLevel, mu, out, written, pc, call, stale,
                 emitted, pre, lastSet, held, used, lr>>

\* the method returns to its caller
Logrus_Return(t) ==
    /\ Running
    /\ pc[t] = "lrRet"
    /\ pc' = [pc EXCEPT ![t] = "idle"]
    /\ call' = [call EXCEPT ![t] = NoCall]
    /\ emitted' = [emitted EXCEPT ![t] = <<>>]
    /\ pre' = [pre EXCEPT ![t] = NoPre]
    /\ used' = [used EXCEPT ![t] = <<>>]
    /\ UNCHANGED <<currentLevel, mu, out, written, exits, stale, lastSet,
                 held, lr>>

\* l.logger.SetOutput(w)
Logrus_SetOutput(t, w) ==
    /\ Running
    /\ pc[t] = "idle"
    /\ lr # NoLogrus
    /\ w \in LogrusSinks
    /\ lr' = [lr EXCEPT !.out = w]
    /\ UNCHANGED <<currentLevel, mu, out, written, exits, pc, call, stale,
                 emitted, pre, lastSet, held, used>>

\* l.logger.SetFormatter(formatter)
Logrus_SetFormatter(t, f) ==
    /\ Running
    /\ pc[t] = "idle"
    /\ lr # NoLogrus
    /\ f \in Formatters
    /\ lr' = [lr EXCEPT !.formatter = f]
    /\ UNCHANGED <<currentLevel, mu, out, written, exits, pc, call, stale,
                 emitted, pre, lastSet, held, used>>

\* WithFields drops the fields and returns l itself
Logrus_WithFields(t) ==
    /\ Running
    /\ pc[t] = "idle"
    /\ lr # NoLogrus
    /\ UNCHANGED vars

LogrusSteps(t) ==
    \/ Logrus_getState_Lock(t)
    \/ Logrus_getState_Unlock(t)
    \/ Logrus_isEnabled_Compare(t)
    \/ Logrus_Log(t)
    \/ Logrus_Exit(t)
    \/ Logrus_Return(t)

(* ------------------------------------------------------------------ *)
(* Spec: one goroutine uses the whole API, call after call.            *)
(* ------------------------------------------------------------------ *)
Steps(t) ==
    \/ getState_Lock(t)
    \/ getState_Unlock(t)
    \/ isPrint_Compare(t)
    \/ Output(t)
    \/ Exit(t)
    \/ Return(t)
    \/ setGlobalStateLevel_Lock(t)
    \/ setGlobalStateLevel_Write(t)
    \/ setGlobalStateLevel_Unlock(t)

Next ==
    \/ \E lg \in Singletons : stdLogger_Print(MainThread, lg)
    \/ \E lg \in Singletons : stdLogger_Printf(MainThread, lg)
    \/ \E lg \in Singletons : stdLogger_Println(MainThread, lg)
    \/ \E lg \in Singletons : stdLogger_Fatal(MainThread, lg)
    \/ \E lg \in Singletons : stdLogger_Fatalf(MainThread, lg)
    \/ \E fn \in PkgFns : PackageFn(MainThread, fn)
    \/ \E lvl \in LevelInputs : SetLevel(MainThread, lvl)
    \/ \E lg \in Singletons, w \in Sinks : stdLogger_SetOutput(MainThread, lg, w)
    \/ \E lvl \in LevelInputs : NewStdLogger(MainThread, lvl)
    \/ \E w \in Sinks : Handle_SetOutput(MainThread, w)
    \/ \E fn \in Methods : Handle_Method(MainThread, fn)
    \/ Handle_Drop(MainThread)
    \/ \E l \in LevelInputs : Level_String(MainThread, l)
    \/ Level_String_Return(MainThread)
    \/ Steps(MainThread)

Spec == Init /\ [][Next]_vars

(* ------------------------------------------------------------------ *)
(* ConcSpec: NumThreads goroutines call SetLevel and log concurrently. *)
(* ------------------------------------------------------------------ *)
ConcLevels == {DebugLevel, ErrorLevel}
ConcLoggers == {"InfoLogger"}

ConcNext ==
    \E t \in Threads :
        \/ \E lg \in ConcLoggers : stdLogger_Println(t, lg)
        \/ \E lg \in ConcLoggers : stdLogger_Fatal(t, lg)
        \/ \E lvl \in ConcLevels : SetLevel(t, lvl)
        \/ Steps(t)

ConcSpec == Init /\ [][ConcNext]_vars

(* ------------------------------------------------------------------ *)
(* LogrusSpec: one goroutine builds and uses a *Logrus, next to        *)
(* SetLevel and a part of the plain loggers' API.                      *)
(* ------------------------------------------------------------------ *)
LogrusStdLoggers == {"ErrorLogger"}
LogrusPkgFns == {"Info", "golog.Fatal"}
LogrusStdSinks == {"buf"}
LogrusFactoryLevels == {InfoLevel, DisabledLevel + 1}

LogrusNext ==
    \/ \E lvl \in Levels : SetLevel(MainThread, lvl)
    \/ \E lvl \in Levels : NewLogrusLogger(MainThread, lvl)
    \/ Logrus_Print(MainThread)
    \/ Logrus_Printf(MainThread)
    \/ Logrus_Println(MainThread)
    \/ Logrus_Fatal(MainThread)
    \/ Logrus_Fatalf(MainThread)
    \/ \E w \in LogrusSinks : Logrus_SetOutput(MainThread, w)
    \/ \E f \in Formatters : Logrus_SetFormatter(MainThread, f)
    \/ Logrus_WithFields(MainThread)
    \/ \E lg \in LogrusStdLoggers : stdLogger_Println(MainThread, lg)
    \/ \E fn \in LogrusPkgFns : PackageFn(MainThread, fn)
    \/ \E lg \in LogrusStdLoggers, w \in LogrusStdSinks :
          stdLogger_SetOutput(MainThread, lg, w)
    \/ \E lvl \in LogrusFactoryLevels : NewStdLogger(MainThread, lvl)
    \/ Handle_Drop(MainThread)
    \/ Steps(MainThread)
    \/ LogrusSteps(MainThread)

LogrusSpec == Init /\ [][LogrusNext]_vars

(* ------------------------------------------------------------------ *)
(* FairConcSpec: ConcSpec under fair scheduling. The Go scheduler runs  *)
(* every runnable goroutine again (weak fairness of each goroutine's    *)
(* steps), and a goroutine blocked in mu.Lock() is not overtaken        *)
(* forever: sync.Mutex hands the lock to a waiter that has waited long  *)
(* (starvation mode), and RWMutex.Lock is built on it (strong fairness  *)
(* of the two Lock steps).                                              *)
(* ------------------------------------------------------------------ *)
FairConcSpec ==
    /\ ConcSpec
    /\ \A t \in Threads :
          /\ WF_vars(Steps(t))
          /\ SF_vars(getState_Lock(t))
          /\ SF_vars(setGlobalStateLevel_Lock(t))

TypeOK ==
    /\ currentLevel \in LevelInputs
    /\ mu \subseteq Threads
    /\ out \in [Singletons -> Sinks]
    /\ \A s \in AllSinks : written[s] \in 0..MaxLines
    /\ Total(written, AllSinks) <= MaxLines
    /\ Len(exits) <= 1
    /\ \A t \in Threads :
          pc[t] \in LogPcs \cup LogrusPcs
                    \cup {"idle", "setLock", "setWrite", "setUnlock",
                          "factoryRet", "stringRet"}
    /\ \A t \in Threads : held[t] \subseteq LevelInputs /\ Len(used[t]) <= 1
    /\ lr # NoLogrus =>
          /\ lr.level \in Levels
          /\ lr.out \in LogrusSinks
          /\ lr.formatter \in Formatters

(* ================================================================== *)
(* Claims                                                              *)
(* ================================================================== *)
PrintFns == {"Print", "Printf", "Println"}
SetPcs == {"setLock", "setWrite", "setUnlock"}

\* the level of the logger thread t is calling
Lvl(t) == LevelOf(call[t].lg)

\* the sink the logger thread t is calling is bound to
SinkOf(t) == out[call[t].lg]

\* the running call of t has handed exactly one line to its logger's sink
\* and no sink holds anything else new
WroteOne(t) == wrote(t) /\ written = [pre[t].written EXCEPT ![SinkOf(t)] = @ + 1]

\* the running call of t has handed nothing to any sink
WroteNothing(t) == ~wrote(t) /\ written = pre[t].written

(* C1: with the threshold G among the six levels, a Print, Printf or      *)
(* Println of a logger of level L has, when it returns, handed one line   *)
(* to its sink if L >= G (L = G included) and nothing to any sink if      *)
(* L < G.                                                                 *)
C1_MonotonicGating ==
    \A t \in Threads :
        (pc[t] = "ret" /\ call[t].fn \in PrintFns /\ currentLevel \in Levels) =>
            /\ Lvl(t) >= currentLevel => WroteOne(t)
            /\ Lvl(t) < currentLevel => WroteNothing(t)

C1_Witness ==
    /\ pc[MainThread] = "ret"
    /\ call[MainThread].fn = "Printf"
    /\ call[MainThread].lg = "WarningLogger"
    /\ currentLevel = WarningLevel
    /\ WroteOne(MainThread)

(* C2: a Fatal or Fatalf (method or package function) whose logger is     *)
(* below the threshold never reaches Output or os.Exit; when it returns   *)
(* no sink has received anything, the process runs and the caller can go  *)
(* on to its next call.                                                   *)
C2_GatedFatalKeepsRunning ==
    \A t \in Threads :
        (pc[t] \in LogPcs /\ IsFatal(call[t].fn) /\ Lvl(t) < currentLevel) =>
            /\ pc[t] \notin {"output", "exit"}
            /\ WroteNothing(t)
            /\ Running
            /\ pc[t] = "ret" => ENABLED Return(t)

C2_Witness ==
    /\ pc[MainThread] = "ret"
    /\ call[MainThread].fn = "golog.Fatalf"
    /\ currentLevel = DisabledLevel
    /\ WroteNothing(MainThread)
    /\ Running

(* C3: every read of currentLevel by the gate and every write by SetLevel *)
(* is made by a thread holding mu, and no state has one thread about to   *)
(* read currentLevel without mu while another is about to write it.       *)
C3_AccessUnderLock ==
    /\ \A t \in Threads : pc[t] \in {"compare", "setWrite"} => t \in mu
    /\ \A t, u \in Threads :
          ~(t # u /\ pc[t] = "compare" /\ t \notin mu /\ pc[u] = "setWrite")

\* the racing state itself: t reads currentLevel without mu while u, inside
\* its critical section, is about to store another value
C3_NoRacingPair ==
    \A t, u \in Threads :
        ~(/\ t # u
          /\ pc[t] = "compare"
          /\ t \notin mu
          /\ pc[u] = "setWrite"
          /\ call[u].arg # currentLevel)

Threshold == IF lastSet = <<>> THEN InfoLevel ELSE lastSet[1]

(* C5: in a sequential history every logging call is decided against the  *)
(* argument of the last SetLevel that returned, Info if there was none:   *)
(* it reaches Output only if its level is at least that value, and when   *)
(* it returns it has written exactly if its level is at least that value. *)
C5_FreshGate ==
    \A t \in Threads :
        /\ pc[t] \in {"output", "exit"} => Lvl(t) >= Threshold
        /\ pc[t] = "ret" => (IF Lvl(t) >= Threshold THEN WroteOne(t) ELSE WroteNothing(t))

C5_Witness ==
    /\ pc[MainThread] = "ret"
    /\ call[MainThread].fn = "Println"
    /\ call[MainThread].lg = "TraceLogger"
    /\ lastSet = <<DebugLevel>>
    /\ WroteOne(MainThread)

(* C6: a Fatal or Fatalf that passes the gate does not return; once the   *)
(* process has exited, the status is 1, the exiting call had handed its   *)
(* line to its sink before, and no sink has received anything since.      *)
C6_WriteThenExit ==
    /\ \A t \in Threads :
          (pc[t] = "ret" /\ IsFatal(call[t].fn)) => ~wrote(t)
    /\ \A t \in Threads :
          pc[t] = "exit" => IsFatal(call[t].fn) /\ WroteOne(t)
    /\ ~Running =>
          /\ exits = <<1>>
          /\ \E t \in Threads : pc[t] = "exit"

C6_Witness ==
    /\ exits = <<1>>
    /\ pc[MainThread] = "exit"
    /\ call[MainThread].fn = "golog.Fatal"
    /\ WroteOne(MainThread)

(* C7: a step that changes the writer of one singleton changes the writer *)
(* of no other, nor the threshold, nor any sink; and every line goes to   *)
(* the sink its own logger is bound to, so a logger not bound to a sink   *)
(* never writes to it.                                                    *)
C7_SetOutputFrame ==
    [][/\ \A lg \in Singletons :
             out'[lg] # out[lg] =>
                 /\ \A o \in Singletons \ {lg} : out'[o] = out[o]
                 /\ currentLevel' = currentLevel
                 /\ written' = written
       /\ \A s \in Sinks :
             written'[s] # written[s] =>
                 \E t \in Threads :
                     /\ pc[t] = "output"
                     /\ out[call[t].lg] = s
                     /\ out'[call[t].lg] = s]_vars

C7_Witness ==
    /\ out = [lg \in Singletons |-> IF lg = "TraceLogger" THEN "buf" ELSE InitOut(lg)]
    /\ pc[MainThread] = "ret"
    /\ call[MainThread].lg = "InfoLogger"
    /\ WroteOne(MainThread)
    /\ written["buf"] = 0
    /\ written["stdout"] = 1

(* C8: a logging call whose logger is below the threshold it found leaves *)
(* everything as it found it: when it returns, the sinks, the writers of  *)
(* all loggers and the threshold are what they were when it began, and    *)
(* the process runs.                                                      *)
C8_DisabledCallNoOp ==
    \A t \in Threads :
        (pc[t] = "ret" /\ Lvl(t) < pre[t].level) =>
            /\ written = pre[t].written
            /\ out = pre[t].out
            /\ currentLevel = pre[t].level
            /\ emitted[t] = <<>>
            /\ Running

C8_Witness ==
    /\ pc[MainThread] = "ret"
    /\ call[MainThread].fn = "Debug"
    /\ pre[MainThread].level = InfoLevel
    /\ written["stdout"] = 1
    /\ written = pre[MainThread].written

(* C9: as long as SetLevel has not been called the threshold is Info:     *)
(* calls of the Debug and Trace singletons write nothing, calls of the    *)
(* Info, Warning and Error singletons write.                              *)
C9_DefaultInfo ==
    (lastSet = <<>> /\ \A t \in Threads : pc[t] \notin SetPcs) =>
        /\ currentLevel = InfoLevel
        /\ \A t \in Threads :
              /\ (pc[t] = "ret" /\ call[t].lg \in {"DebugLogger", "TraceLogger"}) =>
                    WroteNothing(t)
              /\ (pc[t] \in {"ret", "exit"}
                    /\ call[t].lg \in {"InfoLogger", "WarningLogger", "ErrorLogger"}) =>
                    WroteOne(t)
              /\ (pc[t] \in {"output", "exit"}) =>
                    call[t].lg \notin {"DebugLogger", "TraceLogger"}

C9_Witness ==
    /\ lastSet = <<>>
    /\ \A t \in Threads : pc[t] \notin SetPcs
    /\ pc[MainThread] = "ret"
    /\ call[MainThread].lg = "WarningLogger"
    /\ WroteOne(MainThread)

(* C10: NewStdLogger(level) returns, for each of the six levels, the      *)
(* singleton built with that level, which is the logger the package       *)
(* functions of that level write through; for any other level it returns  *)
(* nil.                                                                   *)
C10_FactoryReturnsSingleton ==
    \A t \in Threads :
        pc[t] = "factoryRet" =>
            IF call[t].arg \in Levels
            THEN /\ call[t].lg \in Singletons
                 /\ LevelOf(call[t].lg) = call[t].arg
                 /\ \A fn \in PkgFns :
                       LevelOf(PkgLogger(fn)) = call[t].arg => PkgLogger(fn) = call[t].lg
            ELSE call[t].lg = Nil

C10_Witness ==
    /\ pc[MainThread] = "factoryRet"
    /\ call[MainThread].arg = WarningLevel
    /\ call[MainThread].lg = "WarningLogger"
    /\ out["WarningLogger"] = "buf"
    /\ written["buf"] = 1

(* C11: the threshold changes only in the store of setGlobalStateLevel,   *)
(* reached from SetLevel, and then to SetLevel's argument: no step of a   *)
(* logging call of a plain logger or of a *Logrus, of SetOutput,          *)
(* SetFormatter, WithFields, NewStdLogger or NewLogrusLogger changes      *)
(* currentLevel.                                                          *)
C11_OnlySetLevelChangesThreshold ==
    [][currentLevel' # currentLevel =>
          \E t \in Threads :
              /\ pc[t] = "setWrite"
              /\ call[t].fn = "SetLevel"
              /\ pc'[t] = "setUnlock"
              /\ currentLevel' = call[t].arg]_vars

\* no SetLevel was called; a *Logrus was built, given a buffer and the
\* JSON formatter, ErrorLogger was rebound, two lines were logged and
\* NewStdLogger has just returned: the threshold is the initial one
C11_Witness ==
    /\ lastSet = <<>>
    /\ pc[MainThread] = "factoryRet"
    /\ lr # NoLogrus
    /\ lr.out = "buf"
    /\ lr.formatter = "json"
    /\ out["ErrorLogger"] = "buf"
    /\ written["buf"] = 2
    /\ currentLevel = InitLevel

\* the strings the documentation gives for the levels and for the loggers
C12_Documented(l) ==
    CASE l = 0 -> "DEBUG: "
      [] l = 1 -> "TRACE: "
      [] l = 2 -> "INFO: "
      [] l = 3 -> "WARNING: "
      [] l = 4 -> "ERROR: "
      [] l = 5 -> "DISABLED: "
      [] OTHER -> ""

C12_LoggerPrefix(lg) ==
    CASE lg = "DebugLogger" -> "DEBUG: "
      [] lg = "TraceLogger" -> "TRACE: "
      [] lg = "InfoLogger" -> "INFO: "
      [] lg = "WarningLogger" -> "WARNING: "
      [] lg = "ErrorLogger" -> "ERROR: "
      [] lg = "DisabledLogger" -> "DISABLED: "

(* C12: Level.String returns "DEBUG: ", "TRACE: ", "INFO: ", "WARNING: ", *)
(* "ERROR: " and "DISABLED: " for the six levels and "" for every other   *)
(* integer, and every line a call on a singleton logger hands to Output   *)
(* begins with the string of that logger's level.                         *)
C12_PrefixCorrect ==
    \A t \in Threads :
        /\ pc[t] = "stringRet" => call[t].ret = C12_Documented(call[t].arg)
        /\ (pc[t] \in LogPcs /\ wrote(t)) =>
              \A i \in 1..Len(emitted[t]) :
                  emitted[t][i].prefix = C12_LoggerPrefix(call[t].lg)

\* WarningLogger.Println has handed its line to the sink
C12_Witness ==
    /\ pc[MainThread] = "ret"
    /\ call[MainThread].fn = "Println"
    /\ call[MainThread].lg = "WarningLogger"
    /\ WroteOne(MainThread)
    /\ emitted[MainThread][1].prefix = "WARNING: "

\* String was called on a value above DisabledLevel and returned ""
C12_OutOfRange ==
    /\ pc[MainThread] = "stringRet"
    /\ call[MainThread].arg > DisabledLevel
    /\ call[MainThread].ret = ""

(* C13: whatever the entry point (Print, Printf, Println, Fatal, Fatalf   *)
(* of a stdLogger or a package function), the frame that the depth        *)
(* stdCallDepth selects in log.Logger.Output is the frame of the user     *)
(* code that called the entry point, not a frame of package golog or log. *)
C13_CallerFrame ==
    \A t \in Threads :
        (pc[t] \in LogPcs /\ wrote(t)) =>
            \A i \in 1..Len(emitted[t]) :
                /\ emitted[t][i].frame = UserFrame
                /\ emitted[t][i].frame.pkg \notin {"golog", "log"}

\* the package function Debugf has written its line
C13_Witness ==
    /\ pc[MainThread] = "ret"
    /\ call[MainThread].fn = "Debugf"
    /\ WroteOne(MainThread)
    /\ emitted[MainThread][1].frame.fn = "caller"

(* C14: after SetLevel(InfoLevel) a Print on the Error-level logger has   *)
(* written nothing when it returns, and after SetLevel(ErrorLevel) a      *)
(* Print on the Error-level logger and a Print on the Info-level logger   *)
(* have each written their line when they return.                         *)
C14_RequirementsComment ==
    \A t \in Threads :
        (pc[t] = "ret" /\ call[t].fn = "Print") =>
            /\ (lastSet = <<InfoLevel>> /\ call[t].lg = "ErrorLogger") =>
                  WroteNothing(t)
            /\ (lastSet = <<ErrorLevel>>
                    /\ call[t].lg \in {"ErrorLogger", "InfoLogger"}) =>
                  WroteOne(t)

\* what the code does in the two cases of C14 where it differs: the
\* Error-level logger prints at threshold Info, the Info-level logger
\* prints nothing at threshold Error
C14_AsCoded ==
    \A t \in Threads :
        (pc[t] = "ret" /\ call[t].fn = "Print") =>
            /\ (lastSet = <<InfoLevel>> /\ call[t].lg = "ErrorLogger") =>
                  WroteOne(t)
            /\ (lastSet = <<ErrorLevel>> /\ call[t].lg = "InfoLogger") =>
                  WroteNothing(t)

\* the running call of t has handed one line to the sink ErrorLogger is
\* bound to, and nothing else was written
C15_WroteToErrorSink(t) ==
    /\ wrote(t)
    /\ written = [pre[t].written EXCEPT ![out["ErrorLogger"]] = @ + 1]

(* C15: the package functions Fatal and Fatalf write their line and go on *)
(* to os.Exit exactly when ErrorLevel >= the threshold, and return having *)
(* written nothing otherwise; their line, like that of Error and Errorf,  *)
(* goes to the sink ErrorLogger is bound to at that moment, also after    *)
(* ErrorLogger.SetOutput.                                                 *)
C15_FatalOnErrorLogger ==
    \A t \in Threads :
        /\ (pc[t] \in {"ret", "exit"}
                /\ call[t].fn \in {"golog.Fatal", "golog.Fatalf"}) =>
              IF ErrorLevel >= currentLevel
              THEN pc[t] = "exit" /\ C15_WroteToErrorSink(t)
              ELSE pc[t] = "ret" /\ WroteNothing(t) /\ Running
        /\ (pc[t] = "ret" /\ call[t].fn \in {"Error", "Errorf"}) =>
              IF ErrorLevel >= currentLevel
              THEN C15_WroteToErrorSink(t)
              ELSE WroteNothing(t)

\* ErrorLogger was rebound to the buffer; the package's Fatalf wrote its
\* line there and exited with status 1
C15_Witness ==
    /\ pc[MainThread] = "exit"
    /\ call[MainThread].fn = "golog.Fatalf"
    /\ out["ErrorLogger"] = "buf"
    /\ pre[MainThread].written["buf"] = 0
    /\ written["buf"] = 1
    /\ exits = <<ExitCode>>

\* the running call of t on the *Logrus has forwarded exactly one entry
\* to the writer of its logrus.Logger, and nothing else was written
LogrusWroteOne(t) ==
    /\ Len(emitted[t]) = 1
    /\ written = [pre[t].written EXCEPT ![lr.out] = @ + 1]

\* the return of a call of one of the methods fns obeys the gate: one
\* entry forwarded if the level of the *Logrus is >= the threshold,
\* nothing if it is below
LogrusGated(fns) ==
    \A t \in Threads :
        (pc[t] = "lrRet" /\ call[t].fn \in fns) =>
            IF lr.level >= currentLevel
            THEN LogrusWroteOne(t)
            ELSE WroteNothing(t)

(* C16: when Print, Printf or Println of the logger NewLogrusLogger(L)    *)
(* returns, it has forwarded exactly one message to the logger's sink if  *)
(* L >= the threshold and nothing if L < the threshold.                   *)
C16_LogrusPrintGated ==
    LogrusGated({"Logrus.Print", "Logrus.Printf", "Logrus.Println"})

\* C16 without Printf: Print and Println do obey the gate
C16_PrintAndPrintlnGated == LogrusGated({"Logrus.Print", "Logrus.Println"})

\* Print of NewLogrusLogger(DisabledLevel) at threshold Disabled forwarded
\* its entry, with severity info, to the buffer the logger was given
C16_PrintReached ==
    /\ pc[MainThread] = "lrRet"
    /\ call[MainThread].fn = "Logrus.Print"
    /\ lr.level = DisabledLevel
    /\ currentLevel = DisabledLevel
    /\ lr.out = "buf"
    /\ LogrusWroteOne(MainThread)
    /\ emitted[MainThread][1].severity = "info"

\* the end of a call of one of the methods fns: os.Exit after one entry
\* written if the level of the *Logrus is >= the threshold, a return with
\* nothing written otherwise
LogrusFatalGated(fns) ==
    \A t \in Threads :
        (pc[t] \in {"lrRet", "lrExit"} /\ call[t].fn \in fns) =>
            IF lr.level >= currentLevel
            THEN pc[t] = "lrExit" /\ LogrusWroteOne(t)
            ELSE pc[t] = "lrRet" /\ WroteNothing(t) /\ Running

(* C17: a Fatal or Fatalf of the logger NewLogrusLogger(L) writes its     *)
(* message and goes on to os.Exit(1) if L >= the threshold, and returns   *)
(* with nothing written and the process running if L < the threshold.    *)
C17_LogrusFatalTerminates ==
    LogrusFatalGated({"Logrus.Fatal", "Logrus.Fatalf"})

\* C17 without Fatalf: Fatal does write and then exit when enabled
C17_FatalTerminates == LogrusFatalGated({"Logrus.Fatal"})

\* Fatal of an enabled *Logrus has written and exited with status 1
C17_FatalReached ==
    /\ pc[MainThread] = "lrExit"
    /\ call[MainThread].fn = "Logrus.Fatal"
    /\ LogrusWroteOne(MainThread)
    /\ exits = <<ExitCode>>

\* where a thread stands between mu.Lock() and the deferred mu.Unlock()
C18_Critical == {"getStateRet", "setWrite", "setUnlock"}

\* mu has at most one holder; a thread holds it exactly while it is inside
\* getState or setGlobalStateLevel, so a thread about to call mu.Lock()
\* does not hold it and a thread that has left the function has released
\* it
C18_LockDiscipline ==
    /\ Cardinality(mu) <= 1
    /\ \A t \in Threads : t \in mu <=> pc[t] \in C18_Critical

\* while the process runs and some call is under way, some thread can
\* take a step
C18_NoDeadlock ==
    (Running /\ \E t \in Threads : pc[t] # "idle") =>
        \E t \in Threads : ENABLED Steps(t)

(* C18: in every interleaving mu has at most one holder, is requested     *)
(* only by a thread that does not hold it and is released before getState *)
(* or setGlobalStateLevel returns; no state with a call under way is      *)
(* stuck; and under fair scheduling every SetLevel and every logging call *)
(* that has begun returns, or the process is terminated by a Fatal.       *)
C18_LockAndProgress ==
    /\ [](C18_LockDiscipline /\ C18_NoDeadlock)
    /\ \A t \in Threads :
          (pc[t] # "idle") ~> (pc[t] = "idle" \/ ~Running)

\* one thread waits in SetLevel for mu while another holds it in getState
C18_Witness ==
    \E t, u \in Threads :
        /\ pc[t] = "setLock"
        /\ pc[u] = "getStateRet"
        /\ mu = {u}

\* thread t takes the step in which its gate decides
C19_Decides(t) == pc[t] = "compare" /\ pc'[t] # "compare"

\* The step in which the gate of t decides: the value v it has read is one
\* currentLevel held since the call began, and the call goes on to Output
\* exactly if L >= v. If currentLevel held a single value X throughout
\* (no SetLevel stored anything during the call), the decision is L >= X.
C19_DecisionStep ==
    \A t \in Threads :
        C19_Decides(t) =>
            /\ Len(used'[t]) = 1
            /\ used'[t][1] \in held[t]
            /\ pc'[t] = "output" <=> Lvl(t) >= used'[t][1]
            /\ held[t] = {pre[t].level} =>
                  (pc'[t] = "output" <=> Lvl(t) >= pre[t].level)

\* what a call does after the decision follows the value it read, whatever
\* currentLevel has become since
C19_DecisionKept ==
    \A t \in Threads :
        /\ (pc[t] \in {"output", "exit"} \/ (pc[t] = "ret" /\ wrote(t))) =>
              Lvl(t) >= used[t][1]
        /\ (pc[t] = "ret" /\ ~wrote(t)) => Lvl(t) < used[t][1]

\* with no SetLevel under way, currentLevel is the argument X of the last
\* SetLevel that returned: that is what a call beginning now finds
C19_Quiescent ==
    ((\A t \in Threads : pc[t] \notin SetPcs) /\ lastSet # <<>>) =>
        currentLevel = lastSet[1]

(* C19: with concurrent callers, the gate of a logging call on a logger   *)
(* of level L decides L >= v for a value v that currentLevel held between *)
(* the start of the call and its return, and the call acts on that        *)
(* decision even if the threshold has changed since; a call that begins   *)
(* while no SetLevel is under way finds the argument X of the last        *)
(* SetLevel that returned, and if nothing is stored during the call it is *)
(* decided against X.                                                     *)
C19_GateReadsHeldValue ==
    /\ [](C19_DecisionKept /\ C19_Quiescent)
    /\ [][C19_DecisionStep]_vars

\* InfoLogger's call has passed the gate and is about to write although
\* a SetLevel(ErrorLevel) that ran meanwhile has returned
C19_Witness ==
    \E t \in Threads :
        /\ pc[t] = "output"
        /\ call[t].lg = "InfoLogger"
        /\ pre[t].level = InfoLevel
        /\ currentLevel = ErrorLevel
        /\ lastSet = <<ErrorLevel>>
        /\ \A u \in Threads : pc[u] \notin SetPcs

\* a call on one of the six singletons has reached its end: it returns or
\* it calls os.Exit
C20_Ended(t) == pc[t] \in {"ret", "exit"} /\ call[t].lg \in Singletons

(* C20: SetLevel stores its argument v whatever integer it is. After      *)
(* SetLevel(v) with v above DisabledLevel no call on any of the six       *)
(* singletons writes or reaches os.Exit; after SetLevel(v) with v below   *)
(* DebugLevel every such call writes its line (and a Fatal or Fatalf then *)
(* exits); in both cases a call writes exactly if its level >= v.         *)
C20_OutOfRangeThreshold ==
    (lastSet # <<>> /\ pc[MainThread] \notin SetPcs) =>
        LET v == lastSet[1] IN
        /\ currentLevel = v
        /\ \A t \in Threads :
              /\ (v > DisabledLevel /\ pc[t] \in LogPcs) =>
                    /\ pc[t] \notin {"output", "exit"}
                    /\ WroteNothing(t)
                    /\ Running
              /\ (v < DebugLevel /\ C20_Ended(t)) =>
                    /\ WroteOne(t)
                    /\ pc[t] = "exit" <=> IsFatal(call[t].fn)
              /\ (v \notin Levels /\ C20_Ended(t)) =>
                    (wrote(t) <=> Lvl(t) >= v)

\* after SetLevel(DisabledLevel + 1) a Fatal on DisabledLogger has
\* returned: nothing was written and the process runs
C20_Witness ==
    /\ lastSet = <<DisabledLevel + 1>>
    /\ pc[MainThread] = "ret"
    /\ call[MainThread].fn = "Fatal"
    /\ call[MainThread].lg = "DisabledLogger"
    /\ WroteNothing(MainThread)
    /\ Running

\* after SetLevel(DebugLevel - 1) a Println on DebugLogger has written
C20_BelowDebug ==
    /\ lastSet = <<DebugLevel - 1>>
    /\ pc[MainThread] = "ret"
    /\ call[MainThread].lg = "DebugLogger"
    /\ WroteOne(MainThread)

====
